---- MODULE Spec2Model ----
(***************************************************************************)
(* NX Projects Tracker: the Collector (tracker run over the configured     *)
(* project list) modelled as a sequential process whose steps are the      *)
(* stretches of code between two awaits.                                   *)
(***************************************************************************)
EXTENDS Integers, Sequences, FiniteSets, TLC

(***************************************************************************)
(* Bounds                                                                  *)
(***************************************************************************)
\* longest project list read from projects.yml
MaxEntries == 2
\* longest identifier given to parseRepoString on its own
MaxLen == 4

(***************************************************************************)
(* JavaScript values                                                       *)
(***************************************************************************)
\* the value undefined, where a string is expected
Undefined == "<undefined>"
\* the value null, where a string is expected
JsNull == "<null>"
\* the value null, where an object is expected
NullObj == [isNull |-> TRUE]

\* JavaScript truthiness of a string-or-undefined-or-null value
Truthy(v) == v \notin {"", Undefined, JsNull}

\* characters identifiers are made of
Chars == {"o", "r", "/"}

\* all strings of at most n characters
StringsUpTo(n) == UNION {[1..k -> Chars] : k \in 0..n}

(***************************************************************************)
(* CONFIG                                                                  *)
(***************************************************************************)
DEFAULT_FIRMWARE == "20.2.0"

\* process.env.GITHUB_TOKEN
Tokens == {Undefined, "ghp_token"}

(***************************************************************************)
(* String.prototype.split('/')                                             *)
(***************************************************************************)
RECURSIVE SplitAcc(_, _, _)
SplitAcc(s, cur, parts) ==
  IF s = <<>> THEN Append(parts, cur)
  ELSE IF Head(s) = "/" THEN SplitAcc(Tail(s), <<>>, Append(parts, cur))
  ELSE SplitAcc(Tail(s), Append(cur, Head(s)), parts)

Split(s) == SplitAcc(s, <<>>, <<>>)

(***************************************************************************)
(* parseRepoString                                                         *)
(***************************************************************************)
parseRepoString(repoString) ==
  LET parts == Split(repoString) IN
  IF Len(parts) # 2
    THEN [error |-> "InvalidRepoFormat", owner |-> <<>>, repo |-> <<>>]
    ELSE [error |-> "none", owner |-> parts[1], repo |-> parts[2]]

(***************************************************************************)
(* Configuration files                                                     *)
(***************************************************************************)
\* names the repository-metadata endpoint reports
Names == {"Atmosphere", "SomeOtherProject"}

\* firmware_requirements mappings found in firmware.yml
FirmwareMaps ==
  UNION {[D -> {"", "19.0.0"}] : D \in SUBSET {"Atmosphere"}}

\* firmware.yml: missing, not YAML, an empty document, or a document with
\* optional keys firmware_requirements and default_firmware
FirmwareFiles ==
  {[status |-> s, hasRequirements |-> FALSE, requirements |-> <<>>,
    default_firmware |-> Undefined] : s \in {"missing", "unparseable", "empty"}}
  \cup
  {[status |-> "ok", hasRequirements |-> TRUE, requirements |-> m,
    default_firmware |-> d] : m \in FirmwareMaps, d \in {Undefined, "21.0.0"}}
  \cup
  {[status |-> "ok", hasRequirements |-> FALSE, requirements |-> <<>>,
    default_firmware |-> d] : d \in {Undefined, "21.0.0"}}

\* entries of the projects list: a null item, a mapping without repo, a
\* mapping whose repo is a number, a mapping whose repo is a string
NullEntry == [kind |-> "null", repoType |-> "undefined", repo |-> <<>>]
ObjectEntry(t, s) == [kind |-> "object", repoType |-> t, repo |-> s]

Str_o == <<"o">>
Str_o_r == <<"o", "/", "r">>
Str__r == <<"/", "r">>

ConfigEntries ==
  {NullEntry, ObjectEntry("undefined", <<>>), ObjectEntry("number", <<>>),
   ObjectEntry("string", Str_o), ObjectEntry("string", Str_o_r),
   ObjectEntry("string", Str__r)}

\* projects.yml: missing, not YAML, a document without a projects list, or a
\* document with one
ProjectsFiles ==
  {[status |-> s, projects |-> <<>>] : s \in {"missing", "unparseable", "nolist"}}
  \cup
  {[status |-> "ok", projects |-> l] :
      l \in UNION {[1..k -> ConfigEntries] : k \in 0..MaxEntries}}

\* output/projects.json as left by an earlier run
PriorOutput ==
  [written |-> FALSE,
   projects |-> <<[isNull |-> FALSE, name |-> "EarlierRun",
                   projectUrl |-> <<"e", "/", "r">>]>>]

(***************************************************************************)
(* State                                                                   *)
(***************************************************************************)
VARIABLES
  token,             \* CONFIG.GITHUB_TOKEN
  firmwareFile,      \* config/firmware.yml on disk
  projectsFile,      \* config/projects.yml on disk
  firmwareMapping,   \* module variable firmwareMapping
  defaultFirmware,   \* module variable defaultFirmware
  pc,                \* where runTracker is suspended
  projects,          \* config.projects once loaded
  idx,               \* position of the for-of loop of processAllProjects
  parsed,            \* owner and repo of the entry being processed
  repoInfo,          \* what fetchRepositoryInfo returned for that entry
  projectData,       \* what processProject returned for the current entry
  processedProjects, \* the array processAllProjects builds
  inflight,          \* HTTP requests sent and not yet answered
  requestLog,        \* every HTTP request sent, in order
  outcomes,          \* per entry, how its two requests ended
  delays,            \* rate-limit delays elapsed so far
  outputFile,        \* output/projects.json on disk
  writeOutcome,      \* how writeProjectsJson ended
  exitStatus,        \* exit status of the process
  repoString,        \* argument of a direct call of parseRepoString
  parseResult,       \* its result
  artifact,          \* what fetching ./data/projects.json gives
  appPc,             \* where the web application is: loading or ready
  appProjects,       \* this.projects of the web application
  filteredProjects,  \* this.filteredProjects
  currentFilters,    \* this.currentFilters
  currentPage,       \* this.currentPage
  totalPages,        \* this.totalPages
  displayed,         \* the records whose cards are in the projects grid
  view,              \* which of loading screen, grid, no-results, error shows
  paginationShown,   \* whether the pagination bar is displayed
  pageButtons,       \* the page numbers of the page-number buttons
  prevDisabled,      \* the disabled attribute of the previous button
  nextDisabled,      \* the disabled attribute of the next button
  lastEvent,         \* the handler that ran last
  pageBefore,        \* this.currentPage when that handler started
  stats,             \* the texts of the four statistics elements
  requested,         \* the URLs the application has fetched, in order
  pending,           \* retries that wait for their fetch
  pageListeners,     \* click listeners on the page-number container
  goToPageCalls,     \* calls of goToPage the last click made
  addPc,             \* where addProject is suspended
  addRepo,           \* argument repo of addProject
  addFirmware,       \* argument firmware of addProject
  addExit,           \* exit status of the add-project process
  callNo,            \* which run of the add-project script this is
  afterFirst,        \* the two configuration files as the first run left them
  firstExit,         \* exit status of the first run
  currentIndex,      \* KeyboardNavigation.currentIndex
  projectCards,      \* KeyboardNavigation.projectCards: per card, its outline
  lastKey,           \* the key of the last keydown event
  indexBefore        \* currentIndex when that event arrived

envVars == <<token, firmwareFile, projectsFile>>
parseVars == <<repoString, parseResult>>
runVars == <<firmwareMapping, defaultFirmware, pc, projects, idx, parsed,
             repoInfo, projectData, processedProjects, inflight, requestLog,
             outcomes, delays, outputFile, writeOutcome, exitStatus>>
presenterVars == <<artifact, appPc, appProjects, filteredProjects,
                   currentFilters, currentPage, totalPages, displayed, view,
                   paginationShown, pageButtons, prevDisabled, nextDisabled,
                   lastEvent, pageBefore, stats, requested, pending,
                   pageListeners, goToPageCalls>>
addVars == <<addPc, addRepo, addFirmware, addExit, callNo, afterFirst, firstExit>>
keyVars == <<currentIndex, projectCards, lastKey, indexBefore>>
vars == <<token, firmwareFile, projectsFile, firmwareMapping, defaultFirmware,
          pc, projects, idx, parsed, repoInfo, projectData, processedProjects,
          inflight,
          requestLog, outcomes, delays, outputFile, writeOutcome, exitStatus,
          repoString, parseResult, artifact, appPc, appProjects,
          filteredProjects, currentFilters, currentPage, totalPages, displayed,
          view, paginationShown, pageButtons, prevDisabled, nextDisabled,
          lastEvent, pageBefore, stats, requested, pending, pageListeners,
          goToPageCalls, addPc, addRepo, addFirmware, addExit, callNo,
          afterFirst, firstExit, currentIndex, projectCards, lastKey,
          indexBefore>>

NoParse == [error |-> "none", owner |-> <<>>, repo |-> <<>>]
NotCalled == [error |-> "not called", owner |-> <<>>, repo |-> <<>>]

\* module state right after the module is loaded, before runTracker runs
InitModule ==
  /\ firmwareMapping = <<>>
  /\ defaultFirmware = DEFAULT_FIRMWARE
  /\ pc = "loadFirmwareConfig"
  /\ projects = <<>>
  /\ idx = 1
  /\ parsed = NoParse
  /\ repoInfo = NullObj
  /\ projectData = NullObj
  /\ processedProjects = <<>>
  /\ inflight = {}
  /\ requestLog = <<>>
  /\ outcomes = <<>>
  /\ delays = 0
  /\ outputFile = PriorOutput
  /\ writeOutcome = "none"
  /\ exitStatus = 0

\* the statistics elements before updateStats has written them
NoStats ==
  [totalProjects |-> "", totalStars |-> "", totalForks |-> "",
   totalLanguages |-> ""]

\* the fields the constructor of NXProjectsTracker sets, and the page as
\* the document has it before the first render
Constructed ==
  /\ appProjects = <<>>
  /\ filteredProjects = <<>>
  /\ currentFilters = [search |-> <<>>, language |-> "all", sortBy |-> "stars"]
  /\ currentPage = 1
  /\ totalPages = 1
  /\ displayed = <<>>
  /\ view = "loading"
  /\ paginationShown = FALSE
  /\ pageButtons = <<>>
  /\ prevDisabled = FALSE
  /\ nextDisabled = FALSE
  /\ lastEvent = "constructor"
  /\ pageBefore = 1
  /\ stats = NoStats
  /\ requested = <<>>
  /\ pending = 0
  /\ pageListeners = 0
  /\ goToPageCalls = 0

\* no web application in this run
NoPresenter ==
  /\ artifact = [status |-> "exception", hasProjects |-> FALSE, projects |-> <<>>]
  /\ appPc = "absent"
  /\ Constructed

\* the add-project script is not run
NoAddProject ==
  /\ addPc = "absent"
  /\ addRepo = <<>>
  /\ addFirmware = <<>>
  /\ addExit = 0
  /\ callNo = 0
  /\ afterFirst = <<>>
  /\ firstExit = 0

\* the fields the constructor of KeyboardNavigation sets
KeyboardConstructed ==
  /\ currentIndex = -1
  /\ projectCards = <<>>
  /\ lastKey = "none"
  /\ indexBefore = -1

Init ==
  /\ token \in Tokens
  /\ firmwareFile \in FirmwareFiles
  /\ projectsFile \in ProjectsFiles
  /\ InitModule
  /\ repoString = <<>>
  /\ parseResult = NotCalled
  /\ NoPresenter
  /\ NoAddProject
  /\ KeyboardConstructed

(***************************************************************************)
(* loadFirmwareConfig                                                      *)
(***************************************************************************)
\* loadFirmwareConfig without its catch block
loadFirmwareConfigNoCatch(f) ==
  IF f.status = "ok"
    THEN [firmwareMapping |-> IF f.hasRequirements THEN f.requirements ELSE <<>>,
          defaultFirmware |-> IF Truthy(f.default_firmware)
                                THEN f.default_firmware ELSE DEFAULT_FIRMWARE,
          thrown |-> FALSE]
    ELSE [firmwareMapping |-> firmwareMapping,
          defaultFirmware |-> defaultFirmware,
          thrown |-> TRUE]

\* the module variables after loadFirmwareConfig has read the file f; thrown
\* tells whether an exception leaves the function
loadFirmwareConfig(f) ==
  IF f.status = "ok"
    THEN [firmwareMapping |-> IF f.hasRequirements THEN f.requirements ELSE <<>>,
          defaultFirmware |-> IF Truthy(f.default_firmware)
                                THEN f.default_firmware ELSE DEFAULT_FIRMWARE,
          thrown |-> FALSE]
    ELSE [firmwareMapping |-> <<>>,
          defaultFirmware |-> DEFAULT_FIRMWARE,
          thrown |-> FALSE]

\* firmwareMapping[projectName]
Lookup(m, k) == IF k \in DOMAIN m THEN m[k] ELSE Undefined

\* getFirmwareRequirement ignoring the mapping
getFirmwareRequirementDefaultOnly(projectName) == defaultFirmware

getFirmwareRequirement(projectName) ==
  IF Truthy(Lookup(firmwareMapping, projectName))
    THEN Lookup(firmwareMapping, projectName)
    ELSE defaultFirmware

(***************************************************************************)
(* GitHub API                                                              *)
(***************************************************************************)
\* createGitHubHeaders never adding the Authorization header
createGitHubHeadersNoAuth ==
  [Accept |-> "application/vnd.github.v3+json",
   UserAgent |-> "NX-Projects-Tracker/1.0.0",
   Authorization |-> Undefined]

createGitHubHeaders ==
  [Accept |-> "application/vnd.github.v3+json",
   UserAgent |-> "NX-Projects-Tracker/1.0.0",
   Authorization |-> IF Truthy(token) THEN token ELSE Undefined]

\* a request of entry i, sent when `delays` rate-limit delays had elapsed
Request(i, kind, owner, repo) ==
  [entry |-> i, kind |-> kind, owner |-> owner, repo |-> repo,
   headers |-> createGitHubHeaders, sentAfterDelays |-> delays]

\* how a request can end: a success response with a JSON body, 404, another
\* non-success status, fetch rejecting, response.json() rejecting
Outcomes == {"ok", "notfound", "error", "exception", "malformed"}

RepoBody(n) ==
  [isNull |-> FALSE, name |-> n, login |-> "owner-login",
   description |-> JsNull, language |-> "C",
   stargazers_count |-> 5, forks_count |-> 1]

ReleaseBody ==
  [isNull |-> FALSE, tag_name |-> "v1.0.0", html_url |-> "release-url",
   published_at |-> "2024-01-15T10:30:00Z"]

\* the bodies a response of outcome o can carry
RepoBodies(o) == IF o = "ok" THEN {RepoBody(n) : n \in Names} ELSE {NullObj}
ReleaseBodies(o) == IF o = "ok" THEN ReleaseBody ELSE NullObj

\* the repository name a response body carries, if any
BodyName(body) == IF body.isNull THEN "" ELSE body.name

\* fetchLatestRelease giving up when no token is set
fetchLatestReleaseTokenOnly(o, body) ==
  IF o = "ok" /\ Truthy(token) THEN body ELSE NullObj

\* what fetchLatestRelease returns when its request ends with outcome o
fetchLatestRelease(o, body) == IF o = "ok" THEN body ELSE NullObj

\* what fetchRepositoryInfo returns when its request ends with outcome o
fetchRepositoryInfo(o, body) == IF o = "ok" THEN body ELSE NullObj

(***************************************************************************)
(* processProject                                                          *)
(***************************************************************************)
\* the first statement of processProject on one entry: "ok" with owner and
\* repo, "caught" when the catch block handles the exception and returns
\* null, "uncaught" when the catch block itself throws
TryParse(project) ==
  IF project.kind = "null" THEN [result |-> "uncaught", parsed |-> NoParse]
  ELSE IF project.repoType # "string" THEN [result |-> "caught", parsed |-> NoParse]
  ELSE LET r == parseRepoString(project.repo) IN
       IF r.error # "none" THEN [result |-> "caught", parsed |-> NoParse]
       ELSE [result |-> "ok", parsed |-> r]

\* `${owner}/${repo}`
ProjectUrl(owner, repo) == owner \o <<"/">> \o repo

\* projectData with an empty string for a missing latestVersion
ProjectDataEmptyVersion(owner, repo, info, latestRelease) ==
  [isNull |-> FALSE,
   name |-> info.name,
   author |-> info.login,
   projectUrl |-> ProjectUrl(owner, repo),
   description |-> IF Truthy(info.description) THEN info.description ELSE "",
   language |-> IF Truthy(info.language) THEN info.language ELSE "",
   stars |-> info.stargazers_count,
   forks |-> info.forks_count,
   latestVersion |-> IF ~latestRelease.isNull THEN latestRelease.tag_name ELSE "",
   latestReleaseUrl |-> IF ~latestRelease.isNull THEN latestRelease.html_url ELSE JsNull,
   latestReleaseDate |-> IF ~latestRelease.isNull THEN latestRelease.published_at ELSE JsNull,
   requiredFirmware |-> getFirmwareRequirement(info.name)]

\* the object literal projectData
ProjectData(owner, repo, info, latestRelease) ==
  [isNull |-> FALSE,
   name |-> info.name,
   author |-> info.login,
   projectUrl |-> ProjectUrl(owner, repo),
   description |-> IF Truthy(info.description) THEN info.description ELSE "",
   language |-> IF Truthy(info.language) THEN info.language ELSE "",
   stars |-> info.stargazers_count,
   forks |-> info.forks_count,
   latestVersion |-> IF ~latestRelease.isNull THEN latestRelease.tag_name ELSE JsNull,
   latestReleaseUrl |-> IF ~latestRelease.isNull THEN latestRelease.html_url ELSE JsNull,
   latestReleaseDate |-> IF ~latestRelease.isNull THEN latestRelease.published_at ELSE JsNull,
   requiredFirmware |-> getFirmwareRequirement(info.name)]

\* processProject sending both requests at once
RequestsOnStartBoth(i, owner, repo) ==
  {Request(i, "repo", owner, repo), Request(i, "release", owner, repo)}

\* the requests processProject sends before its first await
RequestsOnStart(i, owner, repo) == {Request(i, "repo", owner, repo)}

\* processAllProjects putting each result in front
CollectInFront(processed, data) ==
  IF ~data.isNull THEN <<data>> \o processed ELSE processed

\* processedProjects after processAllProjects has looked at one result
Collect(processed, data) ==
  IF ~data.isNull THEN Append(processed, data) ELSE processed

\* the delay taken only after an entry that produced a record
DelaysAfterRecordOnly(data, d) == IF data.isNull THEN d ELSE d + 1

\* the number of delays elapsed once the loop body has run for a result
DelaysAfter(data, d) == d + 1

(***************************************************************************)
(* loadProjectsConfig and the use of config.projects in runTracker          *)
(***************************************************************************)
\* loadProjectsConfig falling back to an empty list
loadProjectsConfigFallback(f) ==
  IF f.status = "ok"
    THEN [thrown |-> FALSE, projects |-> f.projects]
    ELSE [thrown |-> FALSE, projects |-> <<>>]

loadProjectsConfig(f) ==
  IF f.status = "ok"
    THEN [thrown |-> FALSE, projects |-> f.projects]
    ELSE [thrown |-> TRUE, projects |-> <<>>]

(***************************************************************************)
(* Steps of runTracker                                                     *)
(***************************************************************************)
\* the catch block of runTracker: process.exit(1)
Fatal ==
  /\ pc' = "exited"
  /\ exitStatus' = 1

LoadFirmwareConfig ==
  /\ pc = "loadFirmwareConfig"
  /\ LET r == loadFirmwareConfig(firmwareFile) IN
       /\ firmwareMapping' = r.firmwareMapping
       /\ defaultFirmware' = r.defaultFirmware
       /\ IF r.thrown THEN Fatal
                      ELSE pc' = "loadProjectsConfig" /\ UNCHANGED exitStatus
  /\ UNCHANGED <<envVars, parseVars, presenterVars, addVars, keyVars, projects, idx, parsed, repoInfo, projectData,
                 processedProjects, inflight, requestLog, outcomes, delays,
                 outputFile, writeOutcome>>

LoadProjectsConfig ==
  /\ pc = "loadProjectsConfig"
  /\ LET r == loadProjectsConfig(projectsFile) IN
       IF r.thrown
         THEN Fatal /\ UNCHANGED <<projects, outcomes>>
         ELSE /\ projects' = r.projects
              /\ outcomes' = [i \in 1..Len(r.projects) |->
                                 [repo |-> "none", release |-> "none",
                                  name |-> ""]]
              /\ pc' = "processAllProjects"
              /\ UNCHANGED exitStatus
  /\ UNCHANGED <<envVars, parseVars, presenterVars, addVars, keyVars, firmwareMapping, defaultFirmware, idx,
                 parsed, repoInfo, projectData, processedProjects, inflight, requestLog,
                 delays, outputFile, writeOutcome>>

\* processAllProjects takes the next entry and processProject runs up to its
\* first await, or to its end when the identifier cannot be parsed
ProcessProject ==
  /\ pc = "processAllProjects"
  /\ idx <= Len(projects)
  /\ LET r == TryParse(projects[idx]) IN
       CASE r.result = "ok" ->
              /\ parsed' = r.parsed
              /\ inflight' = inflight \cup RequestsOnStart(idx, r.parsed.owner, r.parsed.repo)
              /\ requestLog' = Append(requestLog,
                                      Request(idx, "repo", r.parsed.owner, r.parsed.repo))
              /\ pc' = "fetchRepositoryInfo"
              /\ UNCHANGED <<projectData, processedProjects, exitStatus>>
         [] r.result = "caught" ->
              /\ projectData' = NullObj
              /\ processedProjects' = Collect(processedProjects, NullObj)
              /\ pc' = "delay"
              /\ UNCHANGED <<parsed, inflight, requestLog, exitStatus>>
         [] r.result = "uncaught" ->
              /\ Fatal
              /\ UNCHANGED <<parsed, inflight, requestLog, projectData,
                             processedProjects>>
  /\ UNCHANGED <<envVars, parseVars, presenterVars, addVars, keyVars, firmwareMapping, defaultFirmware, projects,
                 idx, repoInfo, outcomes, delays, outputFile, writeOutcome>>

\* the metadata request ends; processProject resumes and either returns null
\* or sends the latest-release request
RepoResponse ==
  /\ pc = "fetchRepositoryInfo"
  /\ \E req \in inflight, o \in Outcomes :
       /\ req.kind = "repo"
       /\ \E body \in RepoBodies(o) :
            /\ outcomes' = [outcomes EXCEPT ![idx].repo = o,
                                            ![idx].name = BodyName(body)]
            /\ repoInfo' = fetchRepositoryInfo(o, body)
            /\ IF repoInfo'.isNull
                 THEN /\ inflight' = inflight \ {req}
                      /\ projectData' = NullObj
                      /\ processedProjects' = Collect(processedProjects, NullObj)
                      /\ pc' = "delay"
                      /\ UNCHANGED requestLog
                 ELSE /\ inflight' = (inflight \ {req}) \cup
                                        {Request(idx, "release", parsed.owner, parsed.repo)}
                      /\ requestLog' = Append(requestLog,
                                              Request(idx, "release", parsed.owner, parsed.repo))
                      /\ pc' = "fetchLatestRelease"
                      /\ UNCHANGED <<projectData, processedProjects>>
  /\ UNCHANGED <<envVars, parseVars, presenterVars, addVars, keyVars, firmwareMapping, defaultFirmware, projects,
                 idx, parsed, delays, outputFile, writeOutcome, exitStatus>>

\* the latest-release request ends; processProject builds its result and
\* returns it, processAllProjects keeps it and starts the rate-limit delay
ReleaseResponse ==
  /\ pc = "fetchLatestRelease"
  /\ \E req \in inflight, o \in Outcomes :
       /\ req.kind = "release"
       /\ outcomes' = [outcomes EXCEPT ![idx].release = o]
       /\ inflight' = inflight \ {req}
       /\ LET latestRelease == fetchLatestRelease(o, ReleaseBodies(o)) IN
            /\ projectData' = ProjectData(parsed.owner, parsed.repo, repoInfo,
                                          latestRelease)
            /\ processedProjects' = Collect(processedProjects, projectData')
       /\ pc' = "delay"
  /\ UNCHANGED <<envVars, parseVars, presenterVars, addVars, keyVars, firmwareMapping, defaultFirmware, projects,
                 idx, parsed, repoInfo, requestLog, delays, outputFile,
                 writeOutcome, exitStatus>>

\* the timer of the rate-limit delay fires and the loop moves on
RateLimitDelay ==
  /\ pc = "delay"
  /\ delays' = DelaysAfter(projectData, delays)
  /\ idx' = idx + 1
  /\ pc' = "processAllProjects"
  /\ UNCHANGED <<envVars, parseVars, presenterVars, addVars, keyVars, firmwareMapping, defaultFirmware, projects,
                 parsed, repoInfo, projectData, processedProjects, inflight,
                 requestLog, outcomes, outputFile, writeOutcome, exitStatus>>

\* writeProjectsJson adding to what the file held
writeProjectsJsonMerge(processed) ==
  [written |-> TRUE, projects |-> outputFile.projects \o processed]

\* what writeProjectsJson leaves on disk when it succeeds
writeProjectsJson(processed) == [written |-> TRUE, projects |-> processed]

\* the loop is over: writeProjectsJson runs, then runTracker returns, or its
\* catch block exits when the write fails
WriteProjectsJson ==
  /\ pc = "processAllProjects"
  /\ idx > Len(projects)
  /\ \E w \in {"ok", "fail"} :
       /\ writeOutcome' = w
       /\ IF w = "ok"
            THEN /\ outputFile' = writeProjectsJson(processedProjects)
                 /\ pc' = "exited"
                 /\ UNCHANGED exitStatus
            ELSE /\ Fatal
                 /\ UNCHANGED outputFile
  /\ UNCHANGED <<envVars, parseVars, presenterVars, addVars, keyVars, firmwareMapping, defaultFirmware, projects,
                 idx, parsed, repoInfo, projectData, processedProjects, inflight,
                 requestLog, outcomes, delays>>

Next ==
  \/ LoadFirmwareConfig
  \/ LoadProjectsConfig
  \/ ProcessProject
  \/ RepoResponse
  \/ ReleaseResponse
  \/ RateLimitDelay
  \/ WriteProjectsJson

Spec == Init /\ [][Next]_vars

(***************************************************************************)
(* parseRepoString called on its own, on every identifier up to MaxLen      *)
(***************************************************************************)
InitParse ==
  /\ token = Undefined
  /\ firmwareFile = [status |-> "missing", hasRequirements |-> FALSE,
                     requirements |-> <<>>, default_firmware |-> Undefined]
  /\ projectsFile = [status |-> "missing", projects |-> <<>>]
  /\ InitModule
  /\ repoString = <<>>
  /\ parseResult = NotCalled
  /\ NoPresenter
  /\ NoAddProject
  /\ KeyboardConstructed

ParseRepoString ==
  /\ \E s \in StringsUpTo(MaxLen) :
       /\ repoString' = s
       /\ parseResult' = parseRepoString(s)
  /\ UNCHANGED <<envVars, runVars, presenterVars, addVars, keyVars>>

NextParse == ParseRepoString

SpecParse == InitParse /\ [][NextParse]_vars

(***************************************************************************)
(* The web application (class NXProjectsTracker): data                     *)
(***************************************************************************)
\* size of the larger projects.json the application is given
BigSize == 25

\* retries that can wait for their fetch at the same time
MaxPending == 1

\* listeners on the page-number container that are told apart
MaxListeners == 2

\* this.itemsPerPage
itemsPerPage == 12

\* String.prototype.toLowerCase on one character
LowerChar(c) ==
  CASE c = "A" -> "a" [] c = "T" -> "t" [] c = "M" -> "m" [] c = "O" -> "o"
    [] c = "H" -> "h" [] c = "N" -> "n" [] c = "K" -> "k" [] c = "E" -> "e"
    [] c = "X" -> "x" [] OTHER -> c

\* String.prototype.toLowerCase
ToLowerCase(s) == [i \in 1..Len(s) |-> LowerChar(s[i])]

\* String.prototype.includes
Includes(s, t) ==
  \E i \in 0..(Len(s) - Len(t)) : \A j \in 1..Len(t) : s[i + j] = t[j]

\* the place in the alphabet of a letter project texts are written with,
\* whatever its case
LetterRank(c) ==
  LET l == LowerChar(c) IN
  CASE l = "a" -> 1 [] l = "e" -> 2 [] l = "h" -> 3 [] l = "k" -> 4 [] l = "m" -> 5
    [] l = "n" -> 6 [] l = "o" -> 7 [] l = "t" -> 8 [] l = "x" -> 9

\* comparison of two strings letter by letter, case ignored
RECURSIVE ComparePrimary(_, _)
ComparePrimary(a, b) ==
  IF a = <<>> /\ b = <<>> THEN 0
  ELSE IF a = <<>> THEN -1
  ELSE IF b = <<>> THEN 1
  ELSE IF LetterRank(Head(a)) < LetterRank(Head(b)) THEN -1
  ELSE IF LetterRank(Head(a)) > LetterRank(Head(b)) THEN 1
  ELSE ComparePrimary(Tail(a), Tail(b))

\* comparison of the case of two strings that differ in case only: at the
\* first difference the lower-case letter comes first
RECURSIVE CompareCase(_, _)
CompareCase(a, b) ==
  IF a = <<>> \/ b = <<>> THEN 0
  ELSE IF Head(a) = Head(b) THEN CompareCase(Tail(a), Tail(b))
  ELSE IF Head(a) = LowerChar(Head(a)) THEN -1 ELSE 1

\* String.prototype.localeCompare
localeCompare(a, b) ==
  LET primary == ComparePrimary(a, b) IN
  IF primary # 0 THEN primary ELSE CompareCase(a, b)

\* new Date(s) as a number, for a date s written <<year, month, day>>
DateValue(s) == (s[1] * 12 + (s[2] - 1)) * 31 + s[3]

\* Math.ceil(n / d)
CeilDivFloor(n, d) == n \div d

CeilDiv(n, d) == (n + d - 1) \div d

\* one record of projects.json; hasDescription is FALSE for a null or
\* missing description
ProjectRecord(id, name, author, hasDesc, desc, lang, stars, forks, updated, created) ==
  [projectUrl |-> id, name |-> name, author |-> author,
   hasDescription |-> hasDesc, description |-> desc, language |-> lang,
   stars |-> stars, forks |-> forks, lastUpdated |-> updated,
   createdAt |-> created]

\* a projects.json of three records
SmallCollection ==
  <<ProjectRecord(1, <<"H", "e", "k">>, <<"n", "x">>, TRUE,
                  <<"a", "t", "m", "o">>, "C", 5, 2, <<2024, 1, 15>>, <<2020, 5, 1>>),
    ProjectRecord(2, <<"A", "t", "m", "o">>, <<"A", "t", "m", "o">>, TRUE,
                  <<>>, "C++", 50, 7, <<2024, 3, 2>>, <<2018, 2, 9>>),
    ProjectRecord(3, <<"h", "e", "k">>, <<"m", "e">>, FALSE,
                  <<>>, "", 1, 7, <<2023, 12, 30>>, <<2021, 7, 7>>)>>

\* a projects.json of n records, with equal stars, forks, names and dates
\* among them
LargeCollection(n) ==
  [k \in 1..n |->
     ProjectRecord(k,
       IF k % 2 = 0 THEN <<"a", "t">> ELSE <<"h", "e">>,
       IF k % 4 < 2 THEN <<"n", "x">> ELSE <<"N", "x">>,
       k % 2 = 1,
       IF k % 2 = 1 THEN <<"A", "t", "m", "o">> ELSE <<>>,
       IF k % 3 = 0 THEN "C" ELSE IF k % 3 = 1 THEN "Rust" ELSE "",
       250 * (k % 5), k % 3,
       <<2024, 1 + (k % 12), 1 + (k % 28)>>,
       <<2015 + (k % 7), 1, 1>>)]

\* what fetch('./data/projects.json') can give: a network failure, a
\* non-success response without or with a body of projects, a body that is
\* not JSON, a JSON object without projects, a JSON object with projects
Artifacts ==
  {[status |-> s, hasProjects |-> FALSE, projects |-> <<>>] :
      s \in {"exception", "notok", "malformed"}}
  \cup {[status |-> "notok", hasProjects |-> TRUE, projects |-> SmallCollection]}
  \cup {[status |-> "ok", hasProjects |-> FALSE, projects |-> <<>>]}
  \cup {[status |-> "ok", hasProjects |-> TRUE, projects |-> c] :
          c \in {<<>>, SmallCollection, LargeCollection(BigSize)}}

\* the texts typed in the search box
SearchTerms ==
  {<<>>, <<"A", "T", "M", "O">>, <<"x">>, <<"k", "k">>}

\* the values of the sort select, and one value it does not have
SortValues == {"stars", "forks", "name", "author", "latest", "created", "other"}

(***************************************************************************)
(* filterProjects                                                          *)
(***************************************************************************)
\* the predicate of the search filter, without lower-casing the record
MatchesSearchCaseSensitive(project, searchTerm) ==
  \/ Includes(project.name, searchTerm)
  \/ Includes(project.author, searchTerm)
  \/ /\ project.hasDescription /\ project.description # <<>>
     /\ Includes(project.description, searchTerm)

\* the predicate of the search filter
MatchesSearch(project, searchTerm) ==
  \/ Includes(ToLowerCase(project.name), searchTerm)
  \/ Includes(ToLowerCase(project.author), searchTerm)
  \/ /\ project.hasDescription /\ project.description # <<>>
     /\ Includes(ToLowerCase(project.description), searchTerm)

\* the two filters of filterProjects
Filtered(ps, filters) ==
  LET searched ==
        IF filters.search # <<>>
          THEN LET searchTerm == ToLowerCase(filters.search)
                   keep(p) == MatchesSearch(p, searchTerm)
               IN  SelectSeq(ps, keep)
          ELSE ps
      keepLanguage(p) == p.language = filters.language
  IN  IF filters.language # "all"
        THEN SelectSeq(searched, keepLanguage)
        ELSE searched

\* the comparator with an unknown key comparing nothing
CompareNoDefault(sortBy, a, b) ==
  CASE sortBy = "stars" -> b.stars - a.stars
    [] sortBy = "forks" -> b.forks - a.forks
    [] sortBy = "name" -> localeCompare(a.name, b.name)
    [] sortBy = "author" -> localeCompare(a.author, b.author)
    [] sortBy = "latest" -> DateValue(b.lastUpdated) - DateValue(a.lastUpdated)
    [] sortBy = "created" -> DateValue(b.createdAt) - DateValue(a.createdAt)
    [] OTHER -> 0

\* the comparator given to sort
Compare(sortBy, a, b) ==
  CASE sortBy = "stars" -> b.stars - a.stars
    [] sortBy = "forks" -> b.forks - a.forks
    [] sortBy = "name" -> localeCompare(a.name, b.name)
    [] sortBy = "author" -> localeCompare(a.author, b.author)
    [] sortBy = "latest" -> DateValue(b.lastUpdated) - DateValue(a.lastUpdated)
    [] sortBy = "created" -> DateValue(b.createdAt) - DateValue(a.createdAt)
    [] OTHER -> b.stars - a.stars

\* x put into the sorted sequence s, after the elements it does not precede
RECURSIVE InsertSorted(_, _, _)
InsertSorted(s, x, sortBy) ==
  IF s = <<>> THEN <<x>>
  ELSE IF Compare(sortBy, Head(s), x) > 0 THEN <<x>> \o s
  ELSE <<Head(s)>> \o InsertSorted(Tail(s), x, sortBy)

\* Array.prototype.sort with the comparator of filterProjects (a stable sort)
RECURSIVE SortedFrom(_, _, _)
SortedFrom(s, acc, sortBy) ==
  IF s = <<>> THEN acc
  ELSE SortedFrom(Tail(s), InsertSorted(acc, Head(s), sortBy), sortBy)

\* a sort that takes the elements from the last to the first
ArraySortFromEnd(s, sortBy) ==
  SortedFrom([i \in 1..Len(s) |-> s[Len(s) + 1 - i]], <<>>, sortBy)

ArraySort(s, sortBy) == SortedFrom(s, <<>>, sortBy)

\* filterProjects sorting this.projects itself when no filter is set
filterProjectsInPlace(a) ==
  LET sorted == ArraySort(Filtered(a.projects, a.currentFilters),
                          a.currentFilters.sortBy)
  IN  IF a.currentFilters.search = <<>> /\ a.currentFilters.language = "all"
        THEN [a EXCEPT !.projects = sorted, !.filteredProjects = sorted]
        ELSE [a EXCEPT !.filteredProjects = sorted]

filterProjects(a) ==
  [a EXCEPT !.filteredProjects =
              ArraySort(Filtered(a.projects, a.currentFilters),
                        a.currentFilters.sortBy)]

(***************************************************************************)
(* Rendering                                                               *)
(***************************************************************************)
\* Array.prototype.slice(startIndex, endIndex), indices counted from 0
Slice(s, startIndex, endIndex) ==
  LET from == IF startIndex < Len(s) THEN startIndex ELSE Len(s)
      to == IF endIndex < Len(s) THEN endIndex ELSE Len(s)
  IN  IF from < to THEN SubSeq(s, from + 1, to) ELSE <<>>

\* Number.prototype.toFixed(1) of num / unit, in tenths
ToFixed1(num, unit) == (num * 10 + unit \div 2) \div unit

\* formatNumber: the text is the number of tenths followed by the suffix
formatNumber(num) ==
  IF num >= 1000000 THEN [tenths |-> ToFixed1(num, 1000000), suffix |-> "M"]
  ELSE IF num >= 1000 THEN [tenths |-> ToFixed1(num, 1000), suffix |-> "K"]
  ELSE [tenths |-> num * 10, suffix |-> ""]

\* reduce((sum, project) => sum + project[field], 0) over the first n
RECURSIVE SumOf(_, _, _)
SumOf(ps, field, n) ==
  IF n = 0 THEN 0 ELSE SumOf(ps, field, n - 1) + ps[n][field]

\* the Set of the truthy languages
LanguagesOf(ps) == {ps[i].language : i \in 1..Len(ps)} \ {""}

\* updateStats counting the filtered records
updateStatsFiltered(a) ==
  [a EXCEPT !.stats =
     [totalProjects |-> formatNumber(Len(a.filteredProjects)),
      totalStars |-> formatNumber(SumOf(a.filteredProjects, "stars", Len(a.filteredProjects))),
      totalForks |-> formatNumber(SumOf(a.filteredProjects, "forks", Len(a.filteredProjects))),
      totalLanguages |-> Cardinality(LanguagesOf(a.filteredProjects))]]

updateStats(a) ==
  [a EXCEPT !.stats =
     [totalProjects |-> formatNumber(Len(a.projects)),
      totalStars |-> formatNumber(SumOf(a.projects, "stars", Len(a.projects))),
      totalForks |-> formatNumber(SumOf(a.projects, "forks", Len(a.projects))),
      totalLanguages |-> Cardinality(LanguagesOf(a.projects))]]

\* renderProjects taking the shown records out of filteredProjects (splice)
renderProjectsSplice(a) ==
  IF Len(a.projects) = 0
    THEN [a EXCEPT !.displayed = <<>>, !.view = "error"]
  ELSE IF Len(a.filteredProjects) = 0
    THEN [a EXCEPT !.displayed = <<>>, !.view = "noResults"]
  ELSE LET startIndex == (a.currentPage - 1) * itemsPerPage
           endIndex == startIndex + itemsPerPage
       IN  updateStats(
             [a EXCEPT !.displayed = Slice(a.filteredProjects, startIndex, endIndex),
                       !.filteredProjects =
                          Slice(a.filteredProjects, 0, startIndex) \o
                          Slice(a.filteredProjects, endIndex, Len(a.filteredProjects)),
                       !.view = "grid"])

renderProjects(a) ==
  IF Len(a.projects) = 0
    THEN [a EXCEPT !.displayed = <<>>, !.view = "error"]
  ELSE IF Len(a.filteredProjects) = 0
    THEN [a EXCEPT !.displayed = <<>>, !.view = "noResults"]
  ELSE LET startIndex == (a.currentPage - 1) * itemsPerPage
           endIndex == startIndex + itemsPerPage
       IN  updateStats(
             [a EXCEPT !.displayed = Slice(a.filteredProjects, startIndex, endIndex),
                       !.view = "grid"])

\* the numbers from lo to hi, in order
Range(lo, hi) == [i \in 1..(hi - lo + 1) |-> lo + i - 1]

\* generatePageNumbers with a button for the page after the last
generatePageNumbersPastEnd(total, current) ==
  IF total <= 1 THEN <<1, 2>>
  ELSE IF total <= 5 THEN Range(1, total + 1)
  ELSE IF current <= 3 THEN Range(1, 3) \o <<total + 1>>
  ELSE IF current >= total - 2
    THEN <<1>> \o Range(total - 2, total + 1)
  ELSE <<1>> \o Range(current - 1, current + 1) \o <<total + 1>>

\* the page numbers of the buttons generatePageNumbers makes
generatePageNumbers(total, current) ==
  IF total <= 1 THEN <<1>>
  ELSE IF total <= 5 THEN Range(1, total)
  ELSE IF current <= 3 THEN Range(1, 3) \o <<total>>
  ELSE IF current >= total - 2
    THEN <<1>> \o Range(total - 2, total)
  ELSE <<1>> \o Range(current - 1, current + 1) \o <<total>>

\* the listeners on the page-number container after
\* setupPaginationEventListeners: one more, MaxListeners standing for
\* MaxListeners or more
setupPaginationEventListeners(n) == IF n < MaxListeners THEN n + 1 ELSE n

renderPagination(a) ==
  IF Len(a.filteredProjects) = 0
    THEN [a EXCEPT !.paginationShown = FALSE]
    ELSE LET total == CeilDiv(Len(a.filteredProjects), itemsPerPage) IN
         [a EXCEPT !.totalPages = total,
                   !.paginationShown = TRUE,
                   !.prevDisabled = (a.currentPage = 1),
                   !.nextDisabled = (a.currentPage = total),
                   !.pageButtons = generatePageNumbers(total, a.currentPage),
                   !.pageListeners = setupPaginationEventListeners(a.pageListeners)]

\* filterAndRender keeping the current page
filterAndRenderKeepPage(a) ==
  renderPagination(renderProjects(filterProjects(a)))

filterAndRender(a) ==
  renderPagination(renderProjects([filterProjects(a) EXCEPT !.currentPage = 1]))

goToPage(a, page) ==
  renderPagination(renderProjects([a EXCEPT !.currentPage = page]))

\* the listeners of one click on a page-number button, each calling goToPage
RECURSIVE ClickListeners(_, _, _)
ClickListeners(a, page, n) ==
  IF n = 0 THEN a ELSE ClickListeners(goToPage(a, page), page, n - 1)

\* loadProjects reading the body whatever the status of the response
loadProjectsAnyStatus(f) ==
  IF f.hasProjects THEN f.projects ELSE <<>>

\* this.projects after loadProjects has fetched the artifact f
loadProjects(f) ==
  IF f.status = "ok" /\ f.hasProjects THEN f.projects ELSE <<>>

\* retry after loadProjects has fetched the artifact f, without filtering
retryRenderOnly(a, f) ==
  renderPagination(renderProjects(
    [updateStats([a EXCEPT !.projects = loadProjects(f)]) EXCEPT !.currentPage = 1]))

\* retry after loadProjects has fetched the artifact f
retry(a, f) ==
  filterAndRender(updateStats([a EXCEPT !.projects = loadProjects(f)]))

\* the values of the language select after updateLanguageFilter
LanguageOptions(ps) ==
  {"all"} \cup ({ps[i].language : i \in 1..Len(ps)} \ {""})

(***************************************************************************)
(* The web application: state and handlers                                 *)
(***************************************************************************)
\* the application object and the parts of the page it writes
App ==
  [projects |-> appProjects, filteredProjects |-> filteredProjects,
   currentFilters |-> currentFilters, currentPage |-> currentPage,
   totalPages |-> totalPages, displayed |-> displayed, view |-> view,
   paginationShown |-> paginationShown, pageButtons |-> pageButtons,
   prevDisabled |-> prevDisabled, nextDisabled |-> nextDisabled,
   stats |-> stats, pageListeners |-> pageListeners]

\* the URL loadProjects fetches
DataUrl == "./data/projects.json"

\* the URLs fetched once url has been fetched
Fetch(log, url) ==
  IF \E i \in 1..Len(log) : log[i] = url THEN log ELSE Append(log, url)

\* the step named e ends with the application as a
Ends(a, e) ==
  \E r \in {a} :
    /\ appProjects' = r.projects
    /\ filteredProjects' = r.filteredProjects
    /\ currentFilters' = r.currentFilters
    /\ currentPage' = r.currentPage
    /\ totalPages' = r.totalPages
    /\ displayed' = r.displayed
    /\ view' = r.view
    /\ paginationShown' = r.paginationShown
    /\ pageButtons' = r.pageButtons
    /\ prevDisabled' = r.prevDisabled
    /\ nextDisabled' = r.nextDisabled
    /\ stats' = r.stats
    /\ pageListeners' = r.pageListeners
    /\ lastEvent' = e
    /\ pageBefore' = currentPage
    /\ UNCHANGED <<envVars, runVars, parseVars, addVars, keyVars>>

\* the handler named e, which fetches nothing and is no page-number click,
\* ends with the application as a
Becomes(a, e) ==
  /\ Ends(a, e)
  /\ goToPageCalls' = 0
  /\ UNCHANGED <<artifact, requested, pending>>

InitPresenter ==
  /\ token = Undefined
  /\ firmwareFile = [status |-> "missing", hasRequirements |-> FALSE,
                     requirements |-> <<>>, default_firmware |-> Undefined]
  /\ projectsFile = [status |-> "missing", projects |-> <<>>]
  /\ InitModule
  /\ repoString = <<>>
  /\ parseResult = NotCalled
  /\ artifact \in Artifacts
  /\ appPc = "loading"
  /\ Constructed
  /\ NoAddProject
  /\ KeyboardConstructed

\* init goes on after loadProjects: listeners, first filter and first render
InitLoaded ==
  /\ appPc = "loading"
  /\ appPc' = "ready"
  /\ Ends(renderPagination(renderProjects(filterProjects(updateStats(
            [App EXCEPT !.projects = loadProjects(artifact)])))), "init")
  /\ requested' = Fetch(requested, DataUrl)
  /\ goToPageCalls' = 0
  /\ UNCHANGED <<artifact, pending>>

\* the input listener of the search box
SearchInput ==
  /\ appPc = "ready"
  /\ \E v \in SearchTerms :
       Becomes(filterAndRender([App EXCEPT !.currentFilters.search = v]), "search")
  /\ UNCHANGED appPc

\* the click listener of the clear-search button
ClearSearch ==
  /\ appPc = "ready"
  /\ Becomes(filterAndRender([App EXCEPT !.currentFilters.search = <<>>]), "clear")
  /\ UNCHANGED appPc

\* the change listener of the language select
LanguageChange ==
  /\ appPc = "ready"
  /\ \E l \in LanguageOptions(appProjects) :
       Becomes(filterAndRender([App EXCEPT !.currentFilters.language = l]), "language")
  /\ UNCHANGED appPc

\* the change listener of the sort select
SortChange ==
  /\ appPc = "ready"
  /\ \E v \in SortValues :
       Becomes(filterAndRender([App EXCEPT !.currentFilters.sortBy = v]), "sort")
  /\ UNCHANGED appPc

\* the click listener of the previous button
PrevClick ==
  /\ appPc = "ready"
  /\ paginationShown
  /\ ~prevDisabled
  /\ Becomes(IF currentPage > 1 THEN goToPage(App, currentPage - 1) ELSE App, "prev")
  /\ UNCHANGED appPc

\* the click listener of the next button
NextClick ==
  /\ appPc = "ready"
  /\ paginationShown
  /\ ~nextDisabled
  /\ Becomes(IF currentPage < totalPages THEN goToPage(App, currentPage + 1) ELSE App,
             "next")
  /\ UNCHANGED appPc

\* the click listener of the page-number buttons
PageClick ==
  /\ appPc = "ready"
  /\ paginationShown
  /\ \E k \in 1..Len(pageButtons) :
       Ends(ClickListeners(App, pageButtons[k], pageListeners), "page")
  /\ goToPageCalls' = pageListeners
  /\ UNCHANGED <<appPc, artifact, requested, pending>>

\* the click listener of the retry button, which is part of the error
\* state, up to the await of loadProjects
RetryClick ==
  /\ appPc = "ready"
  /\ view = "error"
  /\ pending < MaxPending
  /\ Ends([App EXCEPT !.view = "loading"], "retryClick")
  /\ requested' = Fetch(requested, DataUrl)
  /\ pending' = pending + 1
  /\ goToPageCalls' = 0
  /\ UNCHANGED <<appPc, artifact>>

\* retry goes on after loadProjects
RetryLoaded ==
  /\ appPc = "ready"
  /\ pending > 0
  /\ \E f \in Artifacts :
       /\ Ends(retry(App, f), "retry")
       /\ artifact' = f
  /\ pending' = pending - 1
  /\ goToPageCalls' = 0
  /\ UNCHANGED <<appPc, requested>>

NextPresenter ==
  \/ InitLoaded
  \/ SearchInput
  \/ ClearSearch
  \/ LanguageChange
  \/ SortChange
  \/ PrevClick
  \/ NextClick
  \/ PageClick
  \/ RetryClick
  \/ RetryLoaded

SpecPresenter == InitPresenter /\ [][NextPresenter]_vars

(***************************************************************************)
(* Keyboard navigation (class KeyboardNavigation)                          *)
(***************************************************************************)
\* project cards in the document at most
MaxCards == 5

\* the keys pressed
Keys == {"ArrowDown", "ArrowUp", "Enter", "Escape", "a"}

\* the navigator as a record
Navigation == [currentIndex |-> currentIndex, projectCards |-> projectCards]

clearSelection(k) ==
  [k EXCEPT !.projectCards = [i \in 1..Len(k.projectCards) |-> FALSE],
            !.currentIndex = -1]

navigateProjects(k, direction) ==
  IF Len(k.projectCards) = 0 THEN k
  ELSE LET c == clearSelection(k)
           n == Len(c.projectCards)
           moved == c.currentIndex + direction
           index == IF c.currentIndex = -1
                      THEN (IF direction > 0 THEN 0 ELSE n - 1)
                    ELSE IF moved >= n THEN 0
                    ELSE IF moved < 0 THEN n - 1
                    ELSE moved
       IN  [c EXCEPT !.currentIndex = index, !.projectCards[index + 1] = TRUE]

handleKeydown(k, key) ==
  IF key = "ArrowDown" \/ key = "ArrowUp"
    THEN navigateProjects(k, IF key = "ArrowDown" THEN 1 ELSE -1)
  ELSE IF key = "Enter" /\ k.currentIndex >= 0 THEN k
  ELSE IF key = "Escape" THEN clearSelection(k)
  ELSE k

InitKeyboard ==
  /\ token = Undefined
  /\ firmwareFile = [status |-> "missing", hasRequirements |-> FALSE,
                     requirements |-> <<>>, default_firmware |-> Undefined]
  /\ projectsFile = [status |-> "missing", projects |-> <<>>]
  /\ InitModule
  /\ repoString = <<>>
  /\ parseResult = NotCalled
  /\ NoPresenter
  /\ NoAddProject
  /\ KeyboardConstructed

\* updateProjectCards: the cards now in the document are registered; those
\* that were there before keep their style
UpdateProjectCards ==
  /\ \E n \in 0..MaxCards :
       projectCards' = [i \in 1..n |->
                          IF i <= Len(projectCards) THEN projectCards[i] ELSE FALSE]
  /\ currentIndex' = -1
  /\ lastKey' = "none"
  /\ indexBefore' = currentIndex
  /\ UNCHANGED <<envVars, runVars, parseVars, presenterVars, addVars>>

\* the keydown listener of the document
Keydown ==
  /\ \E key \in Keys :
       /\ \E k \in {handleKeydown(Navigation, key)} :
            /\ currentIndex' = k.currentIndex
            /\ projectCards' = k.projectCards
       /\ lastKey' = key
  /\ indexBefore' = currentIndex
  /\ UNCHANGED <<envVars, runVars, parseVars, presenterVars, addVars>>

NextKeyboard ==
  \/ UpdateProjectCards
  \/ Keydown

SpecKeyboard == InitKeyboard /\ [][NextKeyboard]_vars

(***************************************************************************)
(* The add-project script                                                  *)
(***************************************************************************)
\* longest firmware argument
MaxFw == 5

\* characters firmware arguments are made of
FwChars == {"1", ".", "x"}

\* a firmware version that has the form X.Y.Z
Fw_1_1_1 == <<"1", ".", "1", ".", "1">>

\* another one
Fw_2_0_0 == <<"2", ".", "0", ".", "0">>

\* all firmware arguments of at most n characters
FirmwaresUpTo(n) == UNION {[1..k -> FwChars] : k \in 0..n}

\* the arguments of one run: every repo with a few firmware versions, and
\* every firmware version with a few repos
AddArguments ==
  (StringsUpTo(MaxLen) \X {Fw_1_1_1, <<"1", ".", "1">>})
  \cup ({Str_o_r, Str_o} \X FirmwaresUpTo(MaxFw))

\* projects.yml as the script finds it
AddProjectsFiles ==
  {[status |-> s, projects |-> <<>>] : s \in {"missing", "nolist"}}
  \cup
  {[status |-> "ok", projects |-> l] :
      l \in {<<>>, <<ObjectEntry("string", Str_o_r)>>, <<NullEntry>>,
              <<ObjectEntry("string", Str_o), ObjectEntry("undefined", <<>>)>>}}

\* firmware.yml as the script finds it: missing, without
\* firmware_requirements, or with a mapping from project names to versions
AddFirmwareFiles ==
  {[status |-> "missing", hasRequirements |-> FALSE, requirements |-> <<>>,
    default_firmware |-> Undefined],
   [status |-> "ok", hasRequirements |-> FALSE, requirements |-> <<>>,
    default_firmware |-> Undefined]}
  \cup
  {[status |-> "ok", hasRequirements |-> TRUE, requirements |-> m,
    default_firmware |-> Undefined] :
      m \in UNION {[D -> {<<>>, Fw_2_0_0}] : D \in SUBSET {<<"r">>}}}

\* isValidRepoFormat accepting any repo with a separator
isValidRepoFormatAnySeparator(repo) == Includes(repo, <<"/">>)

isValidRepoFormat(repo) == Includes(repo, <<"/">>) /\ Len(Split(repo)) = 2

\* the class \d
IsDigit(c) == c \in {"0", "1", "2", "3", "4", "5", "6", "7", "8", "9"}

\* the match of \d+\.\d+\.\d+$ from position i on, in group number group,
\* digits telling whether the group has a digit already
RECURSIVE MatchFirmware(_, _, _, _)
MatchFirmware(s, i, group, digits) ==
  IF i > Len(s) THEN group = 3 /\ digits
  ELSE IF IsDigit(s[i]) THEN MatchFirmware(s, i + 1, group, TRUE)
  ELSE IF s[i] = "." /\ digits /\ group < 3
    THEN MatchFirmware(s, i + 1, group + 1, FALSE)
  ELSE FALSE

isValidFirmwareFormat(firmware) == MatchFirmware(firmware, 1, 1, FALSE)

\* config.projects.find(p => p.repo === repo) from entry i on: found,
\* absent, or a TypeError on an entry that is null
RECURSIVE FindRepo(_, _, _)
FindRepo(list, repo, i) ==
  IF i > Len(list) THEN "absent"
  ELSE IF list[i].kind = "null" THEN "throws"
  ELSE IF list[i].repoType = "string" /\ list[i].repo = repo THEN "found"
  ELSE FindRepo(list, repo, i + 1)

\* addToProjectsConfig on the file f; saved tells whether writeFile succeeds
addToProjectsConfig(f, repo, saved) ==
  IF f.status # "ok" THEN [file |-> f, result |-> "throws"]
  ELSE IF FindRepo(f.projects, repo, 1) = "throws" THEN [file |-> f, result |-> "throws"]
  ELSE IF FindRepo(f.projects, repo, 1) = "found" THEN [file |-> f, result |-> "exists"]
  ELSE IF ~saved THEN [file |-> f, result |-> "throws"]
  ELSE [file |-> [f EXCEPT !.projects = Append(@, ObjectEntry("string", repo))],
        result |-> "added"]

\* m with the value v for the key name
WithEntry(m, name, v) ==
  [n \in DOMAIN m \cup {name} |-> IF n = name THEN v ELSE m[n]]

\* addToFirmwareConfig writing the requirement whether or not one exists
addToFirmwareConfigOverwrite(f, projectName, firmware, saved) ==
  IF f.status # "ok" \/ ~f.hasRequirements THEN [file |-> f, result |-> "throws"]
  ELSE IF ~saved THEN [file |-> f, result |-> "throws"]
  ELSE [file |-> [f EXCEPT !.requirements = WithEntry(@, projectName, firmware)],
        result |-> "added"]

\* addToFirmwareConfig on the file f; saved tells whether writeFile succeeds
addToFirmwareConfig(f, projectName, firmware, saved) ==
  IF f.status # "ok" \/ ~f.hasRequirements THEN [file |-> f, result |-> "throws"]
  ELSE IF projectName \in DOMAIN f.requirements /\ f.requirements[projectName] # <<>>
    THEN [file |-> f, result |-> "exists"]
  ELSE IF ~saved THEN [file |-> f, result |-> "throws"]
  ELSE [file |-> [f EXCEPT !.requirements = WithEntry(@, projectName, firmware)],
        result |-> "added"]

InitAdd ==
  /\ token = Undefined
  /\ firmwareFile \in AddFirmwareFiles
  /\ projectsFile \in AddProjectsFiles
  /\ InitModule
  /\ repoString = <<>>
  /\ parseResult = NotCalled
  /\ NoPresenter
  /\ KeyboardConstructed
  /\ \E a \in AddArguments :
       /\ addRepo = a[1]
       /\ addFirmware = a[2]
  /\ addPc = "validate"
  /\ addExit = 0
  /\ callNo = 1
  /\ afterFirst = <<projectsFile, firmwareFile>>
  /\ firstExit = 0

\* the run ends with the exit status e and the two files pf and ff
AddEnds(e, pf, ff) ==
  /\ addPc' = "done"
  /\ addExit' = e
  /\ projectsFile' = pf
  /\ firmwareFile' = ff
  /\ afterFirst' = IF callNo = 1 THEN <<pf, ff>> ELSE afterFirst
  /\ firstExit' = IF callNo = 1 THEN e ELSE firstExit
  /\ UNCHANGED <<token, addRepo, addFirmware, callNo>>

\* addProject: the validation of its arguments
AddValidate ==
  /\ addPc = "validate"
  /\ IF ~isValidRepoFormat(addRepo) \/ ~isValidFirmwareFormat(addFirmware)
       THEN AddEnds(1, projectsFile, firmwareFile)
       ELSE /\ addPc' = "addToProjectsConfig"
            /\ UNCHANGED <<envVars, addRepo, addFirmware, addExit, callNo,
                           afterFirst, firstExit>>
  /\ UNCHANGED <<runVars, parseVars, presenterVars, keyVars>>

\* addProject: await addToProjectsConfig(repo)
AddToProjectsConfig ==
  /\ addPc = "addToProjectsConfig"
  /\ \E saved \in BOOLEAN :
       \E r \in {addToProjectsConfig(projectsFile, addRepo, saved)} :
         IF r.result = "throws"
           THEN AddEnds(1, projectsFile, firmwareFile)
           ELSE /\ addPc' = "addToFirmwareConfig"
                /\ projectsFile' = r.file
                /\ UNCHANGED <<token, firmwareFile, addRepo, addFirmware, addExit,
                               callNo, afterFirst, firstExit>>
  /\ UNCHANGED <<runVars, parseVars, presenterVars, keyVars>>

\* addProject: await addToFirmwareConfig(projectName, firmware), and the
\* summary
AddToFirmwareConfig ==
  /\ addPc = "addToFirmwareConfig"
  /\ \E saved \in BOOLEAN :
       \E r \in {addToFirmwareConfig(firmwareFile, Split(addRepo)[2], addFirmware, saved)} :
         IF r.result = "throws"
           THEN AddEnds(1, projectsFile, firmwareFile)
           ELSE AddEnds(0, projectsFile, r.file)
  /\ UNCHANGED <<runVars, parseVars, presenterVars, keyVars>>

\* the script is run again for the same repo, with any firmware
AddAgain ==
  /\ addPc = "done"
  /\ callNo = 1
  /\ callNo' = 2
  /\ addPc' = "validate"
  /\ addExit' = 0
  /\ \E f \in {Fw_1_1_1, Fw_2_0_0, <<"1", ".", "1">>, addFirmware} : addFirmware' = f
  /\ UNCHANGED <<envVars, addRepo, afterFirst, firstExit>>
  /\ UNCHANGED <<runVars, parseVars, presenterVars, keyVars>>

NextAdd ==
  \/ AddValidate
  \/ AddToProjectsConfig
  \/ AddToFirmwareConfig
  \/ AddAgain

SpecAdd == InitAdd /\ [][NextAdd]_vars

(***************************************************************************)
(* Properties of the Collector                                             *)
(***************************************************************************)
\* the configured entry i got through parseRepoString and its metadata
\* request returned repository data
Succeeded(i) ==
  /\ TryParse(projects[i]).result = "ok"
  /\ outcomes[i].repo = "ok"

\* the positions of the entries among the first n that succeeded, in order
RECURSIVE SucceededUpTo(_)
SucceededUpTo(n) ==
  IF n = 0 THEN <<>>
  ELSE IF Succeeded(n) THEN Append(SucceededUpTo(n - 1), n)
  ELSE SucceededUpTo(n - 1)

\* the identifiers of a sequence of records
Urls(recs) == [k \in 1..Len(recs) |-> recs[k].projectUrl]

\* the identifiers of a sequence of positions of the configured list
ConfiguredRepos(ps) == [k \in 1..Len(ps) |-> projects[ps[k]].repo]

\* the run has ended
Exited == pc = "exited"

\* C1: whatever the shape of an entry and however it fails, the loop goes
\* on: a run that loaded its project list never ends before every entry of
\* the list has been handled.
C1_FailureIsolation ==
  (Exited /\ projectsFile.status = "ok") => idx > Len(projectsFile.projects)

\* exactly one entry was answered not-found and every other one succeeded
OneNotFoundOthersOk ==
  /\ Len(projects) > 0
  /\ \E i \in 1..Len(projects) :
       /\ TryParse(projects[i]).result = "ok"
       /\ outcomes[i].repo = "notfound"
       /\ \A j \in (1..Len(projects)) \ {i} : Succeeded(j)

\* C2: the collection is the subsequence of the configured list, in order,
\* of the entries whose identifier parsed and whose metadata request
\* succeeded, both while it is built and once written; with one not-found
\* entry among N otherwise successful ones the written collection has N-1
\* records and the exit status is success.
C2_OutputIsSuccessfulSubsequence ==
  /\ pc = "delay" =>
       Urls(processedProjects) = ConfiguredRepos(SucceededUpTo(idx))
  /\ outputFile.written =>
       Urls(outputFile.projects) = ConfiguredRepos(SucceededUpTo(Len(projects)))
  /\ (Exited /\ writeOutcome = "ok" /\ OneNotFoundOthersOk) =>
       /\ exitStatus = 0
       /\ Len(outputFile.projects) = Len(projects) - 1

C2_Witness ==
  /\ Exited
  /\ exitStatus = 0
  /\ OneNotFoundOthersOk
  /\ Len(projects) = 2
  /\ outputFile.written
  /\ Len(outputFile.projects) = 1

\* exactly one '/', with at least one character before and after it
TwoNonEmptyParts(s) ==
  \E k \in 2..(Len(s) - 1) :
    /\ s[k] = "/"
    /\ \A j \in (1..Len(s)) \ {k} : s[j] # "/"

\* C3: parseRepoString accepts an identifier exactly when it splits into
\* two non-empty parts and raises the invalid-repo-format error otherwise.
C3_AcceptsIffTwoNonEmptyParts ==
  parseResult # NotCalled =>
    /\ (parseResult.error = "none") <=> TwoNonEmptyParts(repoString)
    /\ (parseResult.error = "InvalidRepoFormat") <=> ~TwoNonEmptyParts(repoString)

\* the three latest-release fields of a record are all absent
ReleaseFieldsAbsent(rec) ==
  /\ rec.latestVersion = JsNull
  /\ rec.latestReleaseUrl = JsNull
  /\ rec.latestReleaseDate = JsNull

\* the three latest-release fields of a record are those of the response
ReleaseFieldsFrom(rec, body) ==
  /\ rec.latestVersion = body.tag_name
  /\ rec.latestReleaseUrl = body.html_url
  /\ rec.latestReleaseDate = body.published_at

\* the entries handled so far
Handled == IF pc = "delay" THEN idx ELSE idx - 1

\* C4: in every record the three latest-release fields are all absent or
\* all taken from the release response, absent exactly when the
\* latest-release request ended in not-found or in any other failure; an
\* entry whose latest-release request failed still gets its record.
C4_ReleaseFieldsAllOrNone ==
  /\ Len(projects) > 0 /\ Len(processedProjects) <= Len(SucceededUpTo(Len(projects))) =>
       \A k \in 1..Len(processedProjects) :
         LET rec == processedProjects[k]
             i == SucceededUpTo(Len(projects))[k]
         IN  /\ ReleaseFieldsAbsent(rec) \/ ReleaseFieldsFrom(rec, ReleaseBody)
             /\ ReleaseFieldsAbsent(rec) <=> outcomes[i].release # "ok"
  /\ (pc = "delay" /\ outcomes[idx].release \notin {"none", "ok"}) =>
       /\ ~projectData.isNull
       /\ Len(processedProjects) > 0
       /\ processedProjects[Len(processedProjects)] = projectData
       /\ ReleaseFieldsAbsent(projectData)
  /\ outputFile.written => outputFile.projects = processedProjects

C4_Witness ==
  /\ outputFile.written
  /\ Len(outputFile.projects) = 2
  /\ ReleaseFieldsAbsent(outputFile.projects[1])
  /\ outcomes[1].release = "error"
  /\ ReleaseFieldsFrom(outputFile.projects[2], ReleaseBody)

C6_NonZeroExitIffLoadOrWriteFailed ==
  Exited => (exitStatus # 0 <=> (projectsFile.status # "ok" \/ writeOutcome = "fail"))

\* firmware.yml is missing or cannot be parsed
FirmwareConfigUnusable == firmwareFile.status # "ok"

C8_LoadFailureTouchesNothing ==
  projectsFile.status # "ok" =>
    /\ requestLog = <<>>
    /\ inflight = {}
    /\ outputFile = PriorOutput
    /\ writeOutcome = "none"
    /\ pc \in {"loadFirmwareConfig", "loadProjectsConfig", "exited"}
    /\ Exited => exitStatus = 1

C8_Witness ==
  /\ projectsFile.status = "unparseable"
  /\ Exited
  /\ exitStatus = 1

\* C9: at most one request is outstanding, and it is the last one sent, so
\* every request of an earlier entry (and the earlier request of the same
\* entry) has completed when a request is sent.
C9_OneRequestAtATime ==
  /\ Cardinality(inflight) <= 1
  /\ \A r \in inflight :
       /\ Len(requestLog) > 0
       /\ r = requestLog[Len(requestLog)]
       /\ \A k \in 1..Len(requestLog) : requestLog[k].entry <= r.entry

C9_Witness ==
  /\ Len(requestLog) = 4
  /\ \E r \in inflight : r.entry = 2 /\ r.kind = "release"

\* C10: between a request of one entry and a request of a later entry a
\* rate-limit delay has elapsed, whatever became of the earlier entry, and
\* no delay runs while a request is outstanding.
C10_DelayBetweenEntries ==
  /\ \A j, k \in 1..Len(requestLog) :
       requestLog[j].entry < requestLog[k].entry =>
         requestLog[j].sentAfterDelays < requestLog[k].sentAfterDelays
  /\ \A r \in inflight : r.sentAfterDelays = delays

C10_Witness ==
  /\ Len(requestLog) = 2
  /\ requestLog[1].entry = 1
  /\ outcomes[1].repo = "notfound"
  /\ requestLog[2].entry = 2
  /\ requestLog[2].sentAfterDelays = 1

\* the entry is a mapping whose repo is a string of the form owner/name
WellFormedIdentifier(e) ==
  /\ e.kind = "object"
  /\ e.repoType = "string"
  /\ TwoNonEmptyParts(e.repo)

\* no request is sent twice for an entry, and a latest-release request
\* follows a successful metadata request of the same entry
OneAttemptEach ==
  /\ \A j, k \in 1..Len(requestLog) :
       j < k => ~(/\ requestLog[j].entry = requestLog[k].entry
                  /\ requestLog[j].kind = requestLog[k].kind)
  /\ \A k \in 1..Len(requestLog) :
       requestLog[k].kind = "release" =>
         /\ outcomes[requestLog[k].entry].repo = "ok"
         /\ \E j \in 1..(k - 1) :
              /\ requestLog[j].entry = requestLog[k].entry
              /\ requestLog[j].kind = "repo"

\* C11: every request is attempted at most once per entry, the
\* latest-release request only after the metadata request of the entry
\* succeeded, and no request is sent for an entry whose identifier is
\* malformed.
C11_OneAttemptAndNoneForMalformed ==
  /\ OneAttemptEach
  /\ \A k \in 1..Len(requestLog) :
       WellFormedIdentifier(projects[requestLog[k].entry])

\* C12: every request carries an Authorization header when a token is
\* configured, and none does when no token is configured.
C12_AuthorizationIffToken ==
  \A k \in 1..Len(requestLog) :
    /\ token # Undefined => requestLog[k].headers.Authorization = token
    /\ token = Undefined => requestLog[k].headers.Authorization = Undefined

C12_Witness ==
  /\ token # Undefined
  /\ Len(requestLog) = 2
  /\ requestLog[1].kind = "repo"
  /\ requestLog[2].kind = "release"
  /\ requestLog[2].headers.Authorization = token

\* the record of the configured entry i, from the configuration and the
\* responses alone
RecordOf(i) ==
  LET p == parseRepoString(projects[i].repo) IN
  ProjectData(p.owner, p.repo, RepoBody(outcomes[i].name),
              IF outcomes[i].release = "ok" THEN ReleaseBody ELSE NullObj)

\* the collection of a finished loop, from the configuration and the
\* responses alone
CollectionOf ==
  LET ps == SucceededUpTo(Len(projects)) IN
  [k \in 1..Len(ps) |-> RecordOf(ps[k])]

\* the exit status, from the configuration and the outcome of the write
\* alone
ExitStatusOf ==
  IF \/ projectsFile.status # "ok"
     \/ \E i \in 1..Len(projectsFile.projects) :
          projectsFile.projects[i].kind = "null"
     \/ writeOutcome = "fail"
    THEN 1 ELSE 0

\* C13: the written collection and the exit status of a run are functions
\* of the configuration and of the responses received, the token not being
\* among their arguments: two runs that differ in the token only end alike.
C13_TokenNonInterference ==
  Exited =>
    /\ exitStatus = ExitStatusOf
    /\ outputFile.written => outputFile.projects = CollectionOf

C13_Witness ==
  /\ Exited
  /\ token = Undefined
  /\ outputFile.written
  /\ Len(outputFile.projects) = 2
  /\ outcomes[1].release = "ok"
  /\ outputFile.projects[1].latestVersion = ReleaseBody.tag_name

\* C14: the output artifact changes at most once in a run, in the step
\* that follows the last entry, and a run that ends with success has
\* replaced it by the records of this run and nothing else.
C14_SingleFullReplace ==
  /\ [][outputFile' # outputFile =>
          /\ outputFile = PriorOutput
          /\ pc = "processAllProjects"
          /\ idx = Len(projects) + 1
          /\ Exited'
          /\ outputFile'.projects = processedProjects]_vars
  /\ [](Exited /\ exitStatus = 0 =>
          /\ outputFile.written
          /\ outputFile.projects = processedProjects
          /\ Len(outputFile.projects) = Len(SucceededUpTo(Len(projects))))

C14_Witness ==
  /\ Exited
  /\ exitStatus = 0
  /\ Len(projects) = 2
  /\ outputFile.written
  /\ outputFile.projects = <<>>


(***************************************************************************)
(* Properties of the web application                                       *)
(***************************************************************************)
Ready == appPc = "ready"

\* t is a substring of s once both are lower-cased
FoundIn(s, t) ==
  \E from \in 1..(Len(s) - Len(t) + 1) :
    ToLowerCase(SubSeq(s, from, from + Len(t) - 1)) = ToLowerCase(t)

\* the membership condition of a record under the filters f
Selected(p, f) ==
  /\ \/ f.search = <<>>
     \/ FoundIn(p.name, f.search)
     \/ FoundIn(p.author, f.search)
     \/ p.hasDescription /\ FoundIn(p.description, f.search)
  /\ f.language = "all" \/ p.language = f.language

InFilteredProjects(p) == \E k \in 1..Len(filteredProjects) : filteredProjects[k] = p

\* C15: once the application is ready, a loaded record is in filteredProjects
\* if and only if the search is empty or is, case ignored, a substring of
\* its name, its author or its present description, and the language is
\* "all" or is exactly the record's language.
C15_FilterMembership ==
  Ready =>
    /\ \A i \in 1..Len(appProjects) :
         InFilteredProjects(appProjects[i]) <=> Selected(appProjects[i], currentFilters)
    /\ \A k \in 1..Len(filteredProjects) :
         \E i \in 1..Len(appProjects) : appProjects[i] = filteredProjects[k]

\* an upper-case search has selected one record by its mixed-case name and
\* another by its description only, and has left a third one out
C15_Witness ==
  /\ Ready
  /\ currentFilters.search = <<"A", "T", "M", "O">>
  /\ currentFilters.language = "all"
  /\ \E p, q, r \in {appProjects[i] : i \in 1..Len(appProjects)} :
       /\ InFilteredProjects(p) /\ p.name = <<"A", "t", "m", "o">>
       /\ InFilteredProjects(q) /\ ~FoundIn(q.name, currentFilters.search)
       /\ ~FoundIn(q.author, currentFilters.search)
       /\ ~InFilteredProjects(r)

\* a stands rightly before b under the sort key
InOrder(sortBy, a, b) ==
  CASE sortBy = "stars" -> a.stars >= b.stars
    [] sortBy = "forks" -> a.forks >= b.forks
    [] sortBy = "name" -> localeCompare(a.name, b.name) <= 0
    [] sortBy = "author" -> localeCompare(a.author, b.author) <= 0
    [] sortBy = "latest" -> DateValue(a.lastUpdated) >= DateValue(b.lastUpdated)
    [] sortBy = "created" -> DateValue(a.createdAt) >= DateValue(b.createdAt)
    [] OTHER -> a.stars >= b.stars

\* C16: once the application is ready, every adjacent pair of
\* filteredProjects is ordered by the selected key: stars and forks
\* descending, name and author ascending, latest and created descending,
\* and any other sortBy value as stars.
C16_AdjacentPairsOrdered ==
  Ready =>
    \A k \in 1..(Len(filteredProjects) - 1) :
      InOrder(currentFilters.sortBy, filteredProjects[k], filteredProjects[k + 1])

\* under a sort key the select does not have, the records loaded with stars
\* 5, 50, 1 stand in the order 50, 5, 1
C16_Witness ==
  /\ Ready
  /\ currentFilters.sortBy = "other"
  /\ [i \in 1..Len(appProjects) |-> appProjects[i].stars] = <<5, 50, 1>>
  /\ [k \in 1..Len(filteredProjects) |-> filteredProjects[k].stars] = <<50, 5, 1>>

\* a and b compare equal under the sort key
SameKey(sortBy, a, b) ==
  CASE sortBy = "stars" -> a.stars = b.stars
    [] sortBy = "forks" -> a.forks = b.forks
    [] sortBy = "name" -> a.name = b.name
    [] sortBy = "author" -> a.author = b.author
    [] sortBy = "latest" -> a.lastUpdated = b.lastUpdated
    [] sortBy = "created" -> a.createdAt = b.createdAt
    [] OTHER -> a.stars = b.stars

\* the place of a record in the loaded collection
LoadedAt(p) == CHOOSE i \in 1..Len(appProjects) : appProjects[i] = p

\* C17: once the application is ready, two records of filteredProjects that
\* compare equal under the selected sort key stand in the order they have
\* in the loaded collection.
C17_SortIsStable ==
  Ready =>
    \A k, l \in 1..Len(filteredProjects) :
      (k < l /\ SameKey(currentFilters.sortBy, filteredProjects[k], filteredProjects[l]))
        => LoadedAt(filteredProjects[k]) < LoadedAt(filteredProjects[l])

\* a sort by stars has moved records, and three records of equal stars whose
\* forks differ both ways stand in their loaded order
C17_Witness ==
  /\ Ready
  /\ currentFilters.sortBy = "stars"
  /\ filteredProjects # appProjects
  /\ \E k \in 1..(Len(filteredProjects) - 2) :
       /\ filteredProjects[k].stars = filteredProjects[k + 2].stars
       /\ filteredProjects[k].forks > filteredProjects[k + 1].forks
       /\ filteredProjects[k + 1].forks < filteredProjects[k + 2].forks

\* the least number of pages of d records that hold n records
Ceiling(n, d) == CHOOSE c \in 0..n : c * d >= n /\ \A b \in 0..(c - 1) : b * d < n

\* the records of s with indices from (p-1)*itemsPerPage up to but excluding
\* min(p*itemsPerPage, length), indices counted from 0
PageOf(s, p) ==
  LET lo == (p - 1) * itemsPerPage
      hi == IF p * itemsPerPage < Len(s) THEN p * itemsPerPage ELSE Len(s)
  IN  IF lo < hi THEN [k \in 1..(hi - lo) |-> s[lo + k]] ELSE <<>>

\* C18 as stated: once the application is ready, totalPages is the ceiling
\* of the filtered length over itemsPerPage, and the displayed records are
\* the page currentPage of filteredProjects.
C18_PageCountAndSlice ==
  Ready =>
    /\ totalPages = Ceiling(Len(filteredProjects), itemsPerPage)
    /\ displayed = PageOf(filteredProjects, currentPage)

\* C18 amended: once the application is ready, the displayed records are
\* the page currentPage of filteredProjects, and totalPages is the ceiling
\* of the filtered length over itemsPerPage whenever filteredProjects is
\* not empty (the pagination bar is hidden otherwise).
C18_PageCountOfNonEmptyAndSlice ==
  Ready =>
    /\ filteredProjects # <<>> =>
         /\ totalPages = Ceiling(Len(filteredProjects), itemsPerPage)
         /\ paginationShown
    /\ filteredProjects = <<>> => ~paginationShown
    /\ displayed = PageOf(filteredProjects, currentPage)

\* the third page of three holds what is left after two full pages, which
\* starts at index 2 * itemsPerPage
C18_Witness ==
  /\ Ready
  /\ Len(filteredProjects) = BigSize
  /\ totalPages = 3
  /\ currentPage = 3
  /\ Len(displayed) = Len(filteredProjects) - 2 * itemsPerPage
  /\ displayed[1] = filteredProjects[2 * itemsPerPage + 1]

FilterEvents == {"search", "clear", "language", "sort"}

\* C19: after the handler of a search input, a search clear, a language
\* change or a sort change, currentPage is 1.
C19_FilterChangeResetsPage == lastEvent \in FilterEvents => currentPage = 1

\* such a handler has run on a page other than the first
C19_Witness == lastEvent = "sort" /\ pageBefore = 3 /\ currentPage = 1

PageEvents == {"prev", "next", "page"}

\* C20: the handler of a previous, next or page-number click leaves
\* projects, currentFilters, filteredProjects, totalPages and the view
\* as they are, and displays the page currentPage of filteredProjects.
C20_PageChangeFrame ==
  [][lastEvent' \in PageEvents =>
       /\ UNCHANGED <<appProjects, currentFilters, filteredProjects, totalPages,
                      view, paginationShown, artifact>>
       /\ displayed' = PageOf(filteredProjects, currentPage')]_vars

\* a page change has moved to another page and shows other records
C20_Witness ==
  /\ lastEvent \in PageEvents
  /\ currentPage # pageBefore
  /\ displayed = PageOf(filteredProjects, currentPage)
  /\ displayed # PageOf(filteredProjects, pageBefore)


\* the sum of a field over a collection
RECURSIVE Total(_, _)
Total(ps, field) == IF ps = <<>> THEN 0 ELSE Head(ps)[field] + Total(Tail(ps), field)

\* C21: once the application is ready, the four statistics shown are the
\* count, the sum of stars, the sum of forks (as formatNumber writes them)
\* and the number of distinct non-empty languages of the whole loaded
\* collection, whatever the search, language, sort and page are.
C21_StatsOfWholeCollection ==
  Ready =>
    /\ stats.totalProjects = formatNumber(Len(appProjects))
    /\ stats.totalStars = formatNumber(Total(appProjects, "stars"))
    /\ stats.totalForks = formatNumber(Total(appProjects, "forks"))
    /\ stats.totalLanguages =
         Cardinality({l \in {appProjects[i].language : i \in 1..Len(appProjects)} : l # ""})

\* a search shows a part of a collection whose stars are counted in
\* thousands
C21_Witness ==
  /\ Ready
  /\ lastEvent = "search"
  /\ 0 < Len(filteredProjects)
  /\ Len(filteredProjects) < Len(appProjects)
  /\ stats.totalStars.suffix = "K"
  /\ stats.totalProjects = formatNumber(BigSize)

\* C22: filterProjects run again on its own result gives the same result,
\* and it leaves this.projects as loadProjects set it, contents and order.
C22_FilterProjectsIsPure ==
  Ready =>
    /\ filterProjects(filterProjects(App)) = filterProjects(App)
    /\ filterProjects(App).projects = appProjects
    /\ appProjects = loadProjects(artifact)

\* a sort by name without filters has given an order that is not the
\* loaded one
C22_Witness ==
  /\ Ready
  /\ lastEvent = "sort"
  /\ currentFilters = [search |-> <<>>, language |-> "all", sortBy |-> "name"]
  /\ Len(filteredProjects) = Len(appProjects)
  /\ filteredProjects # appProjects

Failures == {"exception", "notok", "malformed"}

\* the records of the loaded collection the current filters select
SelectedCount == Cardinality({i \in 1..Len(appProjects) : Selected(appProjects[i], currentFilters)})

\* C23: after init or a retry that did not obtain the artifact, whatever
\* the failure, projects is empty, nothing is displayed and the error state
\* with its retry button is shown; after a retry that obtained a non-empty
\* artifact the error state is hidden and the loaded records the filters
\* select are displayed from the first page.
C23_OneFailureModeAndRetry ==
  /\ (lastEvent \in {"init", "retry"} /\ artifact.status \in Failures) =>
       /\ appProjects = <<>>
       /\ filteredProjects = <<>>
       /\ displayed = <<>>
       /\ view = "error"
       /\ ~paginationShown
       /\ stats.totalProjects = formatNumber(0)
  /\ (lastEvent = "retry" /\ artifact.status = "ok" /\ artifact.projects # <<>>) =>
       /\ appProjects = artifact.projects
       /\ view # "error"
       /\ Len(filteredProjects) = SelectedCount
       /\ displayed = PageOf(filteredProjects, 1)
       /\ (SelectedCount > 0 => view = "grid")

\* a retry has shown the first page of the larger collection
C23_Witness ==
  /\ lastEvent = "retry"
  /\ view = "grid"
  /\ Len(appProjects) = BigSize
  /\ Len(displayed) = itemsPerPage

OutputUrl == "/output/projects.json"

\* C24: once the application is ready it has fetched /output/projects.json
\* first, and it shows the error state after init only when it has fetched
\* /data/projects.json as well.
C24_SourcesInOrder ==
  Ready =>
    /\ requested # <<>>
    /\ requested[1] = OutputUrl
    /\ (lastEvent = "init" /\ view = "error") => Len(requested) = 2

\* C25: once the application is ready, filteredProjects is the result of
\* filterProjects on the projects loaded now under the filters set now.
C25_ViewNeverStale ==
  Ready => filteredProjects = filterProjects(App).filteredProjects

\* a retry has applied a search typed before it to the collection it loaded
C25_Witness ==
  /\ lastEvent = "retry"
  /\ currentFilters.search # <<>>
  /\ filteredProjects # <<>>
  /\ Len(filteredProjects) < Len(appProjects)

\* C26: once the application is ready, currentPage is at least 1 and, when
\* filteredProjects is not empty, at most the ceiling of its length over
\* itemsPerPage, and then some record is displayed.
C26_PageInRange ==
  Ready =>
    /\ currentPage >= 1
    /\ filteredProjects # <<>> =>
         /\ currentPage <= Ceiling(Len(filteredProjects), itemsPerPage)
         /\ displayed # <<>>

\* the next button has led to the last page
C26_Witness ==
  /\ lastEvent = "next"
  /\ currentPage = Ceiling(Len(filteredProjects), itemsPerPage)
  /\ currentPage > 2
  /\ nextDisabled

\* C27: the page-number container never has more than one click listener,
\* and a click on a page-number button calls goToPage once.
C27_OneListenerOneCall ==
  /\ pageListeners <= 1
  /\ lastEvent = "page" => goToPageCalls = 1


(***************************************************************************)
(* Properties of keyboard navigation                                       *)
(***************************************************************************)
\* C30: with n > 0 registered cards, ArrowDown selects the index after the
\* selected one (0 after n-1, 0 when none is selected) and ArrowUp the
\* index before it (n-1 before 0, n-1 when none is selected), and
\* currentIndex stays in -1..n-1.
C30_ArrowsMoveSelection ==
  /\ currentIndex \in -1..(Len(projectCards) - 1)
  /\ (lastKey = "ArrowDown" /\ projectCards # <<>>) =>
       currentIndex = IF indexBefore = -1 THEN 0
                      ELSE (indexBefore + 1) % Len(projectCards)
  /\ (lastKey = "ArrowUp" /\ projectCards # <<>>) =>
       currentIndex = IF indexBefore <= 0 THEN Len(projectCards) - 1
                      ELSE indexBefore - 1


OneSeparator(repo) == Cardinality({i \in 1..Len(repo) : repo[i] = "/"}) = 1

\* firmware has the form X.Y.Z: two dots, digits elsewhere, and a digit on
\* both sides of each dot
IsXYZ(firmware) ==
  LET dots == {i \in 1..Len(firmware) : firmware[i] = "."} IN
  /\ Cardinality(dots) = 2
  /\ \A i \in 1..Len(firmware) : i \in dots \/ IsDigit(firmware[i])
  /\ \A i \in dots : i - 1 \in (1..Len(firmware)) \ dots /\ i + 1 \in (1..Len(firmware)) \ dots

\* C29: a first run whose repo does not have exactly one separator, or
\* whose firmware is not of the form X.Y.Z, ends with status 1 and never
\* changes projects.yml or firmware.yml.
C29_InvalidArgumentsChangeNothing ==
  (callNo = 1 /\ (~OneSeparator(addRepo) \/ ~IsXYZ(addFirmware))) =>
    /\ <<projectsFile, firmwareFile>> = afterFirst
    /\ addPc \in {"validate", "done"}
    /\ addPc = "done" => addExit = 1

\* a run with a valid repo that is not in projects.yml and a firmware
\* with a letter in the place of Z has ended
C29_Witness ==
  /\ callNo = 1
  /\ addPc = "done"
  /\ addExit = 1
  /\ addRepo = Str_o_r
  /\ addFirmware = <<"1", ".", "1", ".", "x">>
  /\ projectsFile.status = "ok"
  /\ projectsFile.projects = <<>>

====
